---- MODULE Spec2Model ----
(***************************************************************************)
(* Model of packages/outline/src/OutlineBlockNode.js: the BlockNode        *)
(* traversals (getChildren, getFirstTextNode, ...), the mutators append,   *)
(* clear and normalizeTextNodes, and combineAdjacentTextNodes.             *)
(*                                                                         *)
(* Node objects live in an arena `nodes` indexed by key; `nodeMap` is the  *)
(* set of keys the registry resolves (getNodeByKey returns null for every  *)
(* other key).  A node reference names a key; the arena record is the      *)
(* latest version of the node, and `held` keeps the version that the       *)
(* references taken before the current write transaction still point at    *)
(* (clone-for-write leaves that object untouched).                         *)
(***************************************************************************)
EXTENDS Integers, Sequences, FiniteSets, TLC

\* ------------------------------------------------------------------ bounds
MaxKey == 7
MaxSteps == 2
MaxLen == 3

Keys == 1..MaxKey
\* JavaScript's null, at each type it is used at: a node (key), a flags word, a
\* url, the selection object.
Null == 0
NullFlags == {"null"}
NullURL == "null"
NoSelection ==
    [anchorKey |-> Null, anchorOffset |-> 0, focusKey |-> Null, focusOffset |-> 0,
     isDirty |-> FALSE]

VARIABLES
    nodes,          \* key -> node object (latest version)
    held,           \* key -> node object as references taken before the transaction hold it
    nodeMap,        \* keys the registry resolves
    dirtyNodes,     \* keys already cloned for write in this transaction
    dirtySubTrees,  \* viewModel.dirtySubTrees
    selection,      \* Null or the selection object
    readOnly,       \* the read-only gate
    nextKey,        \* next key the node factory hands out
    steps,          \* number of mutator calls made so far
    last            \* the last call: operation, arguments, outcome, state before it

vars == <<nodes, held, nodeMap, dirtyNodes, dirtySubTrees, selection, readOnly, nextKey, steps, last>>

\* ------------------------------------------------------------------ sequences
indexOf(s, x) ==
    IF \E i \in 1..Len(s) : s[i] = x
    THEN CHOOSE i \in 1..Len(s) : s[i] = x /\ \A j \in 1..(i - 1) : s[j] # x
    ELSE 0

\* Array.prototype.splice(index, 1) with a 1-based index
spliceOut(s, i) == SubSeq(s, 1, i - 1) \o SubSeq(s, i + 1, Len(s))

Count(s, x) == Cardinality({i \in 1..Len(s) : s[i] = x})

RECURSIVE SumLen(_, _)
SumLen(ns, ks) == IF ks = <<>> THEN 0 ELSE Len(ns[Head(ks)].text) + SumLen(ns, Tail(ks))

\* ------------------------------------------------------------------ nodes
BlockNode(parent, children) ==
    [type |-> "block", parent |-> parent, children |-> children,
     text |-> <<>>, flags |-> {}, url |-> NullURL]

TextNode(parent, text, flags, url) ==
    [type |-> "text", parent |-> parent, children |-> <<>>,
     text |-> text, flags |-> flags, url |-> url]

isImmutable(n) == "immutable" \in n.flags
isSegmented(n) == "segmented" \in n.flags

\* The active view model as one value, so that the mutators are operators on it.
ViewModel ==
    [nodes |-> nodes, held |-> held, nodeMap |-> nodeMap, dirtyNodes |-> dirtyNodes,
     dirtySubTrees |-> dirtySubTrees, selection |-> selection,
     readOnly |-> readOnly, nextKey |-> nextKey, err |-> "none"]

getNodeByKey(vm, k) == IF k \in vm.nodeMap THEN k ELSE Null

\* Clone-for-write: the first write access in a transaction clones the node and
\* registers the clone under its key; later accesses return that clone.
getWritableNode(vm, k) ==
    IF k \in vm.dirtyNodes THEN vm
    ELSE [vm EXCEPT !.dirtyNodes = @ \cup {k}, !.nodeMap = @ \cup {k}]

getParent(vm, k) ==
    LET p == vm.nodes[k].parent
    IN  IF p = Null THEN Null ELSE getNodeByKey(vm, p)

shouldErrorOnReadOnly(vm) == vm.readOnly

RECURSIVE ResolveAll(_, _)
ResolveAll(vm, ks) ==
    IF ks = <<>> THEN <<>>
    ELSE (IF getNodeByKey(vm, Head(ks)) # Null THEN <<Head(ks)>> ELSE <<>>)
         \o ResolveAll(vm, Tail(ks))

\* getLatest(): the version registered under the reference's key, whichever
\* version the reference itself holds.
getLatest(vm, self) == vm.nodes[self]

getChildrenOfHeldVersion(vm, self) == ResolveAll(vm, vm.held[self].children)

getChildren(vm, self) == ResolveAll(vm, getLatest(vm, self).children)

getFirstChild(vm, self) ==
    LET children == getLatest(vm, self).children
        childrenLength == Len(children)
    IN  IF childrenLength = 0 THEN Null ELSE getNodeByKey(vm, children[1])

getLastChild(vm, self) ==
    LET children == getLatest(vm, self).children
        childrenLength == Len(children)
    IN  IF childrenLength = 0 THEN Null ELSE getNodeByKey(vm, children[childrenLength])

\* ------------------------------------------------------------------ append
appendNoDetach(vm, self, nodeToAppend) ==
    IF shouldErrorOnReadOnly(vm) THEN [vm EXCEPT !.err = "ReadOnly"]
    ELSE
    LET vm1 == getWritableNode(getWritableNode(vm, self), nodeToAppend)
        vm3 == [vm1 EXCEPT !.nodes[nodeToAppend].parent = self]
        children == vm3.nodes[self].children
        lastChildKey == children[Len(children)]
        markDirty ==
            /\ Len(children) > 0
            /\ getNodeByKey(vm3, lastChildKey) # Null
            /\ vm3.nodes[lastChildKey].type = "text"
            /\ vm3.nodes[lastChildKey].text = <<>>
        vm4 == IF markDirty
               THEN [vm3 EXCEPT !.dirtySubTrees = @ \cup {lastChildKey}]
               ELSE vm3
    IN  [vm4 EXCEPT !.nodes[self].children = Append(@, nodeToAppend)]

appendMarkAnyText(vm, self, nodeToAppend) ==
    IF shouldErrorOnReadOnly(vm) THEN [vm EXCEPT !.err = "ReadOnly"]
    ELSE
    LET vm1 == getWritableNode(getWritableNode(vm, self), nodeToAppend)
        oldParent == getParent(vm1, nodeToAppend)
        vm2 == IF oldParent # Null
               THEN LET w == getWritableNode(vm1, oldParent)
                        index == indexOf(w.nodes[oldParent].children, nodeToAppend)
                    IN  IF index > 0
                        THEN [w EXCEPT !.nodes[oldParent].children = spliceOut(@, index)]
                        ELSE w
               ELSE vm1
        vm3 == [vm2 EXCEPT !.nodes[nodeToAppend].parent = self]
        children == vm3.nodes[self].children
        lastChildKey == children[Len(children)]
        markDirty ==
            /\ Len(children) > 0
            /\ getNodeByKey(vm3, lastChildKey) # Null
            /\ vm3.nodes[lastChildKey].type = "text"
        vm4 == IF markDirty
               THEN [vm3 EXCEPT !.dirtySubTrees = @ \cup {lastChildKey}]
               ELSE vm3
    IN  [vm4 EXCEPT !.nodes[self].children = Append(@, nodeToAppend)]

appendSpliceUnchecked(vm, self, nodeToAppend) ==
    IF shouldErrorOnReadOnly(vm) THEN [vm EXCEPT !.err = "ReadOnly"]
    ELSE
    LET vm1 == getWritableNode(getWritableNode(vm, self), nodeToAppend)
        oldParent == getParent(vm1, nodeToAppend)
        vm2 == IF oldParent # Null
               THEN LET w == getWritableNode(vm1, oldParent)
                        index == indexOf(w.nodes[oldParent].children, nodeToAppend)
                    IN  [w EXCEPT !.nodes[oldParent].children =
                                      IF index > 0 THEN spliceOut(@, index)
                                      ELSE SubSeq(@, 1, Len(@) - 1)]
               ELSE vm1
        vm3 == [vm2 EXCEPT !.nodes[nodeToAppend].parent = self]
        children == vm3.nodes[self].children
        lastChildKey == children[Len(children)]
        markDirty ==
            /\ Len(children) > 0
            /\ getNodeByKey(vm3, lastChildKey) # Null
            /\ vm3.nodes[lastChildKey].type = "text"
            /\ vm3.nodes[lastChildKey].text = <<>>
        vm4 == IF markDirty
               THEN [vm3 EXCEPT !.dirtySubTrees = @ \cup {lastChildKey}]
               ELSE vm3
    IN  [vm4 EXCEPT !.nodes[self].children = Append(@, nodeToAppend)]

appendCloneBeforeGate(vm, self, nodeToAppend) ==
    LET vm1 == getWritableNode(vm, self)
    IN  IF shouldErrorOnReadOnly(vm1) THEN [vm1 EXCEPT !.err = "ReadOnly"]
        ELSE [vm1 EXCEPT !.nodes[nodeToAppend].parent = self,
                         !.nodes[self].children = Append(@, nodeToAppend)]

append(vm, self, nodeToAppend) ==
    IF shouldErrorOnReadOnly(vm) THEN [vm EXCEPT !.err = "ReadOnly"]
    ELSE
    LET vm1 == getWritableNode(getWritableNode(vm, self), nodeToAppend)
        \* Remove node from previous parent
        oldParent == getParent(vm1, nodeToAppend)
        vm2 == IF oldParent # Null
               THEN LET w == getWritableNode(vm1, oldParent)
                        index == indexOf(w.nodes[oldParent].children, nodeToAppend)
                    IN  IF index > 0
                        THEN [w EXCEPT !.nodes[oldParent].children = spliceOut(@, index)]
                        ELSE w
               ELSE vm1
        \* Set child parent to self
        vm3 == [vm2 EXCEPT !.nodes[nodeToAppend].parent = self]
        children == vm3.nodes[self].children
        lastChildKey == children[Len(children)]
        markDirty ==
            /\ Len(children) > 0
            /\ getNodeByKey(vm3, lastChildKey) # Null
            /\ vm3.nodes[lastChildKey].type = "text"
            /\ vm3.nodes[lastChildKey].text = <<>>
        vm4 == IF markDirty
               THEN [vm3 EXCEPT !.dirtySubTrees = @ \cup {lastChildKey}]
               ELSE vm3
    IN  [vm4 EXCEPT !.nodes[self].children = Append(@, nodeToAppend)]

\* ------------------------------------------------------------------ remove
\* OutlineNode.remove(): unlinks the node from its parent's children, clears its
\* parent pointer and drops its registry entry, and does the same for the nodes
\* of its subtree.
RECURSIVE removeNode(_, _)
RECURSIVE removeEach(_, _)
removeNode(vm, k) ==
    LET p == getParent(vm, k)
        vm1 == IF p # Null
               THEN LET w == getWritableNode(vm, p)
                        index == indexOf(w.nodes[p].children, k)
                    IN  IF index > 0
                        THEN [w EXCEPT !.nodes[p].children = spliceOut(@, index)]
                        ELSE w
               ELSE vm
        vm2 == [vm1 EXCEPT !.nodes[k].parent = Null,
                           !.nodeMap = @ \ {k},
                           !.dirtyNodes = @ \cup {k}]
    IN  IF k \in vm.nodeMap THEN removeEach(vm2, getChildren(vm2, k)) ELSE vm2

removeEach(vm, ks) ==
    IF ks = <<>> THEN vm ELSE removeEach(removeNode(vm, Head(ks)), Tail(ks))

\* createTextNode(text): a fresh key from the factory, registered, detached.
createTextNode(vm, text) ==
    [vm EXCEPT !.nodes[vm.nextKey] = TextNode(Null, text, {}, NullURL),
               !.nodeMap = @ \cup {vm.nextKey},
               !.dirtyNodes = @ \cup {vm.nextKey},
               !.nextKey = @ + 1]

\* TextNode.select(anchorOffset, focusOffset)
select(vm, k, anchorOffset, focusOffset) ==
    [vm EXCEPT !.selection =
        [anchorKey |-> k, anchorOffset |-> anchorOffset,
         focusKey |-> k, focusOffset |-> focusOffset, isDirty |-> TRUE]]

\* TextNode.spliceText(offset, delCount, newText)
spliceText(text, offset, delCount, newText) ==
    SubSeq(text, 1, offset) \o newText \o SubSeq(text, offset + delCount + 1, Len(text))

\* ------------------------------------------------------------------ clear
clear(vm, self, restoreSelection) ==
    IF shouldErrorOnReadOnly(vm) THEN [vm EXCEPT !.err = "ReadOnly"]
    ELSE
    LET vm1 == getWritableNode(vm, self)
        children == getChildren(vm1, self)
        vm2 == removeEach(vm1, children)
        textNode == vm2.nextKey
        vm3 == createTextNode(vm2, <<>>)
        vm4 == append(vm3, self, textNode)
    IN  IF restoreSelection THEN select(vm4, textNode, 0, 0) ELSE vm4

\* ------------------------------------------------------------------ normalize
\* The loop of combineAdjacentTextNodes from index i on: `key` is the surviving
\* node, textLength the running length of its text, sel0 the selection as read
\* before the loop.
\* The two selection updates of one loop iteration: an endpoint that lies in
\* textNode moves into the surviving node `key`, behind the text it holds so far.
rebaseDroppingOffset(sel, restoreSelection, textNode, key, textLength, sel0) ==
    LET selA == IF restoreSelection /\ textNode = sel0.anchorKey
                THEN [sel EXCEPT !.anchorOffset = textLength, !.anchorKey = key]
                ELSE sel
    IN  IF restoreSelection /\ textNode = sel0.focusKey
        THEN [selA EXCEPT !.focusOffset = textLength, !.focusKey = key]
        ELSE selA

rebaseSurvivorEndpoints(sel, restoreSelection, textNode, key, textLength, sel0) ==
    LET selA == IF restoreSelection /\ key = sel0.anchorKey
                THEN [sel EXCEPT !.anchorOffset = textLength + sel0.anchorOffset,
                                 !.anchorKey = key]
                ELSE sel
    IN  IF restoreSelection /\ key = sel0.focusKey
        THEN [selA EXCEPT !.focusOffset = textLength + sel0.focusOffset,
                          !.focusKey = key]
        ELSE selA

rebase(sel, restoreSelection, textNode, key, textLength, sel0) ==
    LET selA == IF restoreSelection /\ textNode = sel0.anchorKey
                THEN [sel EXCEPT !.anchorOffset = textLength + sel0.anchorOffset,
                                 !.anchorKey = key]
                ELSE sel
    IN  IF restoreSelection /\ textNode = sel0.focusKey
        THEN [selA EXCEPT !.focusOffset = textLength + sel0.focusOffset,
                          !.focusKey = key]
        ELSE selA

RECURSIVE combineLoop(_, _, _, _, _, _, _)
combineLoop(vm, textNodes, restoreSelection, key, textLength, sel0, i) ==
    IF i > Len(textNodes) THEN vm
    ELSE
    LET textNode == textNodes[i]
        siblingText == vm.nodes[textNode].text
        vmF == [vm EXCEPT !.selection =
                   rebase(@, restoreSelection, textNode, key, textLength, sel0)]
        vmS == [vmF EXCEPT !.nodes[key].text = spliceText(@, textLength, 0, siblingText)]
        vmR == removeNode(vmS, textNode)
    IN  combineLoop(vmR, textNodes, restoreSelection, key,
                    textLength + Len(siblingText), sel0, i + 1)

combineAdjacentTextNodesCloneFirst(vm, textNodes, restoreSelection) ==
    LET vm1 == getWritableNode(vm, textNodes[1])
    IN  IF vm1.selection = NoSelection THEN [vm1 EXCEPT !.err = "Invariant"]
        ELSE LET sel0 == vm1.selection
                 key == textNodes[1]
                 textLength == Len(vm1.nodes[key].text)
                 vm2 == combineLoop(vm1, textNodes, restoreSelection, key, textLength,
                                    sel0, 2)
             IN  IF restoreSelection THEN [vm2 EXCEPT !.selection.isDirty = TRUE] ELSE vm2

combineAdjacentTextNodes(vm, textNodes, restoreSelection) ==
    IF vm.selection = NoSelection THEN [vm EXCEPT !.err = "Invariant"]
    ELSE
    LET sel0 == vm.selection
        key == textNodes[1]
        vm1 == getWritableNode(vm, key)
        textLength == Len(vm1.nodes[key].text)
        vm2 == combineLoop(vm1, textNodes, restoreSelection, key, textLength, sel0, 2)
    IN  IF restoreSelection THEN [vm2 EXCEPT !.selection.isDirty = TRUE] ELSE vm2

\* Closes the batch toNormalize: merged when it holds more than one node.
closeBatch(vm, toNormalize, restoreSelection) ==
    IF Len(toNormalize) > 1
    THEN combineAdjacentTextNodes(vm, toNormalize, restoreSelection)
    ELSE vm

\* The scan of normalizeTextNodes from index i on, over the snapshot `children`.
\* The test that lets a child join a batch at all.
canMergeIgnoringSegmented(child) == child.type = "text" /\ ~isImmutable(child)

canMerge(child) == child.type = "text" /\ ~isImmutable(child) /\ ~isSegmented(child)

RECURSIVE normalizeLoop(_, _, _, _, _, _, _)
normalizeLoop(vm, children, restoreSelection, toNormalize, lastTextNodeFlags, lastURL, i) ==
    IF vm.err # "none" THEN vm
    ELSE IF i > Len(children) THEN closeBatch(vm, toNormalize, restoreSelection)
    ELSE
    LET child == vm.nodes[children[i]]
        flags == child.flags
    IN  IF canMerge(child)
        THEN LET url == child.url
             IN  IF /\ (lastTextNodeFlags = NullFlags \/ flags = lastTextNodeFlags)
                    /\ (lastURL = NullURL \/ lastURL = url)
                 THEN normalizeLoop(vm, children, restoreSelection,
                                    Append(toNormalize, children[i]), flags, url, i + 1)
                 ELSE normalizeLoop(closeBatch(vm, toNormalize, restoreSelection),
                                    children, restoreSelection,
                                    <<children[i]>>, flags, url, i + 1)
        ELSE normalizeLoop(closeBatch(vm, toNormalize, restoreSelection),
                           children, restoreSelection, <<>>, NullFlags, lastURL, i + 1)

normalizeTextNodes(vm, self, restoreSelection) ==
    IF shouldErrorOnReadOnly(vm) THEN [vm EXCEPT !.err = "ReadOnly"]
    ELSE normalizeLoop(vm, getChildren(vm, self), restoreSelection, <<>>, NullFlags, NullURL, 1)

\* ------------------------------------------------------------------ traversal
RECURSIVE firstTextNodeFrom(_, _, _)
RECURSIVE getFirstTextNode(_, _)
\* The loop of getFirstTextNode over `children` from index i on.
firstTextNodeFrom(vm, children, i) ==
    IF i > Len(children) THEN Null
    ELSE IF vm.nodes[children[i]].type = "text" THEN children[i]
    ELSE getFirstTextNode(vm, children[i])

getFirstTextNode(vm, self) == firstTextNodeFrom(vm, getChildren(vm, self), 1)

RECURSIVE lastTextNodeFrom(_, _, _)
RECURSIVE getLastTextNode(_, _)
\* The loop of getLastTextNode over `children` from index i down.
lastTextNodeFrom(vm, children, i) ==
    IF i < 1 THEN Null
    ELSE IF vm.nodes[children[i]].type = "text" THEN children[i]
    ELSE getLastTextNode(vm, children[i])

getLastTextNode(vm, self) ==
    LET children == getChildren(vm, self)
    IN  lastTextNodeFrom(vm, children, Len(children))

\* Keys reachable from k through resolved children, k included.
RECURSIVE Reach(_, _, _)
Reach(vm, frontier, seen) ==
    IF frontier = {} THEN seen
    ELSE LET k == CHOOSE x \in frontier : TRUE
             kids == {c \in vm.nodeMap : Count(vm.nodes[k].children, c) > 0}
         IN  Reach(vm, (frontier \cup kids) \ (seen \cup {k}), seen \cup {k})

\* The recursion of the text-node searches ends on the subtree of k.
Terminates(vm, k) ==
    \A d \in Reach(vm, {k}, {}) :
        \A c \in vm.nodeMap :
            Count(vm.nodes[d].children, c) > 0 => d \notin Reach(vm, {c}, {})

\* ------------------------------------------------------------------ state machine
Blocks(vm) == {k \in vm.nodeMap : vm.nodes[k].type = "block"}

NoCall ==
    [op |-> "none", self |-> Null, arg |-> Null, restore |-> FALSE,
     err |-> "none", result |-> Null, run |-> 0, pre |-> <<>>]

Unused == TextNode(Null, <<>>, {}, NullURL)

Text == {<<>>, <<"a">>}

Sel(k) ==
    [anchorKey |-> k, anchorOffset |-> 0, focusKey |-> k, focusOffset |-> 0,
     isDirty |-> FALSE]

\* Well-formed starting trees over the keys 1..5: nested blocks, an empty block
\* ahead of text siblings, detached nodes, and a child key (5 in the third tree)
\* whose node the registry no longer resolves.
InitTrees ==
    {[nodes |-> (1 :> BlockNode(Null, <<2, 3, 4>>) @@ 2 :> BlockNode(1, <<>>)
                 @@ 3 :> TextNode(1, t3, {}, NullURL) @@ 4 :> TextNode(1, t4, {}, NullURL)
                 @@ 5 :> BlockNode(Null, <<>>) @@ [k \in Keys |-> Unused]),
      nodeMap |-> {1, 2, 3, 4, 5}] : t3 \in Text, t4 \in Text}
    \cup
    {[nodes |-> (1 :> BlockNode(Null, <<2, 4>>) @@ 2 :> BlockNode(1, <<3>>)
                 @@ 3 :> TextNode(2, t3, {}, NullURL) @@ 4 :> TextNode(1, t4, {}, NullURL)
                 @@ 5 :> TextNode(Null, <<"a">>, {}, NullURL) @@ [k \in Keys |-> Unused]),
      nodeMap |-> {1, 2, 3, 4, 5}] : t3 \in Text, t4 \in Text}
    \cup
    {[nodes |-> (1 :> BlockNode(Null, <<2, 5, 3>>) @@ 2 :> TextNode(1, t3, {}, NullURL)
                 @@ 3 :> TextNode(1, t4, {}, NullURL) @@ 4 :> BlockNode(Null, <<>>)
                 @@ [k \in Keys |-> Unused]),
      nodeMap |-> {1, 2, 3, 4}] : t3 \in Text, t4 \in Text}

Init ==
    /\ \E t \in InitTrees : nodes = t.nodes /\ nodeMap = t.nodeMap
    /\ held = nodes
    /\ dirtyNodes = {}
    /\ dirtySubTrees = {}
    /\ selection \in {NoSelection, Sel(3)}
    /\ readOnly \in BOOLEAN
    /\ nextKey = 6
    /\ steps = 0
    /\ last = NoCall

\* The state a mutator call leaves behind (a failed call leaves what it had
\* written before it threw).
Becomes(vm) ==
    /\ nodes' = vm.nodes
    /\ nodeMap' = vm.nodeMap
    /\ dirtyNodes' = vm.dirtyNodes
    /\ dirtySubTrees' = vm.dirtySubTrees
    /\ selection' = vm.selection
    /\ nextKey' = vm.nextKey
    /\ UNCHANGED <<held, readOnly>>

DoAppend(self, nodeToAppend) ==
    /\ steps < MaxSteps
    /\ LET vm == append(ViewModel, self, nodeToAppend)
       IN  /\ Becomes(vm)
           /\ last' = [op |-> "append", self |-> self, arg |-> nodeToAppend,
                       restore |-> FALSE, err |-> vm.err, result |-> Null,
                       run |-> 0, pre |-> ViewModel]
    /\ steps' = steps + 1

DoClear(self, restoreSelection) ==
    /\ steps < MaxSteps
    /\ nextKey <= MaxKey
    /\ LET vm == clear(ViewModel, self, restoreSelection)
       IN  /\ Becomes(vm)
           /\ last' = [op |-> "clear", self |-> self, arg |-> nextKey,
                       restore |-> restoreSelection, err |-> vm.err, result |-> Null,
                       run |-> 0, pre |-> ViewModel]
    /\ steps' = steps + 1

DoNormalizeTextNodes(self, restoreSelection) ==
    /\ steps < MaxSteps
    /\ LET vm == normalizeTextNodes(ViewModel, self, restoreSelection)
       IN  /\ Becomes(vm)
           /\ last' = [op |-> "normalize", self |-> self, arg |-> Null,
                       restore |-> restoreSelection, err |-> vm.err, result |-> Null,
                       run |-> IF vm.err # "none" THEN 0
                               ELSE IF /\ last.op = "normalize" /\ last.self = self
                                       /\ last.run > 0
                                    THEN 2 ELSE 1,
                       pre |-> ViewModel]
    /\ steps' = steps + 1

DoGetFirstTextNode(self) ==
    /\ last.op \notin {"getFirstTextNode", "getLastTextNode"}
    /\ Terminates(ViewModel, self)
    /\ last' = [op |-> "getFirstTextNode", self |-> self, arg |-> Null,
                restore |-> FALSE, err |-> "none",
                result |-> getFirstTextNode(ViewModel, self), run |-> 0, pre |-> ViewModel]
    /\ UNCHANGED <<nodes, held, nodeMap, dirtyNodes, dirtySubTrees, selection, readOnly,
                   nextKey, steps>>

DoGetLastTextNode(self) ==
    /\ last.op \notin {"getFirstTextNode", "getLastTextNode"}
    /\ Terminates(ViewModel, self)
    /\ last' = [op |-> "getLastTextNode", self |-> self, arg |-> Null,
                restore |-> FALSE, err |-> "none",
                result |-> getLastTextNode(ViewModel, self), run |-> 0, pre |-> ViewModel]
    /\ UNCHANGED <<nodes, held, nodeMap, dirtyNodes, dirtySubTrees, selection, readOnly,
                   nextKey, steps>>

\* The surrounding update lifecycle opens the gate for a write transaction ...
BeginUpdate ==
    /\ readOnly
    /\ steps < MaxSteps
    /\ readOnly' = FALSE
    /\ last' = NoCall
    /\ UNCHANGED <<nodes, held, nodeMap, dirtyNodes, dirtySubTrees, selection, nextKey, steps>>

\* ... and closes it, consuming the transaction's accumulators.
EndUpdate ==
    /\ ~readOnly
    /\ steps < MaxSteps
    /\ readOnly' = TRUE
    /\ dirtyNodes' = {}
    /\ dirtySubTrees' = {}
    /\ selection' = [selection EXCEPT !.isDirty = FALSE]
    /\ held' = nodes
    /\ last' = NoCall
    /\ UNCHANGED <<nodes, nodeMap, nextKey, steps>>

Next ==
    \/ \E self \in Blocks(ViewModel), c \in nodeMap : DoAppend(self, c)
    \/ \E self \in Blocks(ViewModel), rs \in BOOLEAN : DoClear(self, rs)
    \/ \E self \in Blocks(ViewModel), rs \in BOOLEAN : DoNormalizeTextNodes(self, rs)
    \/ BeginUpdate
    \/ EndUpdate

Spec == Init /\ [][Next]_vars

\* Trees built by append inside one write transaction, and the text-node
\* searches on them.
InitRead ==
    /\ Init
    /\ ~readOnly
    /\ selection = NoSelection

NextRead ==
    \/ \E self \in Blocks(ViewModel), c \in nodeMap : DoAppend(self, c)
    \/ \E self \in Blocks(ViewModel) : DoGetFirstTextNode(self)
    \/ \E self \in Blocks(ViewModel) : DoGetLastTextNode(self)

SpecRead == InitRead /\ [][NextRead]_vars

\* The child lookups, inside and outside a write transaction, on blocks that
\* append has cloned and changed since the caller took its reference.
DoGetChildren(self) ==
    /\ last' = [op |-> "getChildren", self |-> self, arg |-> Null,
                restore |-> FALSE, err |-> "none",
                result |-> getChildren(ViewModel, self), run |-> 0, pre |-> ViewModel]
    /\ UNCHANGED <<nodes, held, nodeMap, dirtyNodes, dirtySubTrees, selection, readOnly,
                   nextKey, steps>>

DoGetFirstChild(self) ==
    /\ last' = [op |-> "getFirstChild", self |-> self, arg |-> Null,
                restore |-> FALSE, err |-> "none",
                result |-> getFirstChild(ViewModel, self), run |-> 0, pre |-> ViewModel]
    /\ UNCHANGED <<nodes, held, nodeMap, dirtyNodes, dirtySubTrees, selection, readOnly,
                   nextKey, steps>>

DoGetLastChild(self) ==
    /\ last' = [op |-> "getLastChild", self |-> self, arg |-> Null,
                restore |-> FALSE, err |-> "none",
                result |-> getLastChild(ViewModel, self), run |-> 0, pre |-> ViewModel]
    /\ UNCHANGED <<nodes, held, nodeMap, dirtyNodes, dirtySubTrees, selection, readOnly,
                   nextKey, steps>>

NextChildren ==
    \/ \E self \in Blocks(ViewModel), c \in nodeMap : DoAppend(self, c)
    \/ \E self \in Blocks(ViewModel) : DoGetChildren(self)
    \/ \E self \in Blocks(ViewModel) : DoGetFirstChild(self)
    \/ \E self \in Blocks(ViewModel) : DoGetLastChild(self)
    \/ BeginUpdate
    \/ EndUpdate

SpecChildren == Init /\ [][NextChildren]_vars

\* Trees in which text node 4 names block 2 as its parent while block 2's
\* children list does not hold key 4: the inconsistency that the index test of
\* append is written for.
InitTolerant ==
    /\ \E t3 \in Text, t4 \in Text :
        nodes = (1 :> BlockNode(Null, <<2, 3>>) @@ 2 :> BlockNode(1, <<5>>)
                 @@ 3 :> TextNode(1, t3, {}, NullURL) @@ 4 :> TextNode(2, t4, {}, NullURL)
                 @@ 5 :> TextNode(2, <<"a">>, {}, NullURL) @@ [k \in Keys |-> Unused])
    /\ nodeMap = {1, 2, 3, 4, 5}
    /\ held = nodes
    /\ dirtyNodes = {}
    /\ dirtySubTrees = {}
    /\ selection \in {NoSelection, Sel(3)}
    /\ readOnly = FALSE
    /\ nextKey = 6
    /\ steps = 0
    /\ last = NoCall

NextTolerant == \E self \in Blocks(ViewModel), c \in nodeMap : DoAppend(self, c)

SpecTolerant == InitTolerant /\ [][NextTolerant]_vars

\* ------------------------------------------------------------------ normalization inputs
\* One block (key 1) whose children 2..n+1 are drawn from NormKinds, with every
\* selection that lies in them, or none.
NormText(k) ==
    IF k % 3 = 2 THEN <<"a", "b">> ELSE IF k % 3 = 0 THEN <<"c">> ELSE <<>>

NormKinds ==
    {[type |-> "block", flags |-> {}, url |-> NullURL]}
    \cup {[type |-> "text", flags |-> f, url |-> NullURL] :
            f \in {{"immutable"}, {"segmented"}}}
    \cup {[type |-> "text", flags |-> {}, url |-> u] : u \in {NullURL, "u"}}
    \cup {[type |-> "text", flags |-> {"bold"}, url |-> NullURL]}

NormNode(k, kind) ==
    IF kind.type = "block" THEN BlockNode(1, <<>>)
    ELSE TextNode(1, NormText(k), kind.flags, kind.url)

NormEndpoints(n) ==
    UNION {{<<k, o>> : o \in 0..Len(NormText(k))} : k \in 2..(n + 1)}

NormSelections(n) ==
    {NoSelection} \cup
    {[anchorKey |-> a[1], anchorOffset |-> a[2], focusKey |-> f[1],
      focusOffset |-> f[2], isDirty |-> FALSE] :
        a \in NormEndpoints(n), f \in NormEndpoints(n)}

InitNorm ==
    /\ \E n \in 0..MaxLen :
        /\ \E kinds \in [2..(n + 1) -> NormKinds] :
            nodes = [k \in Keys |->
                       IF k = 1 THEN BlockNode(Null, [i \in 1..n |-> i + 1])
                       ELSE IF k <= n + 1 THEN NormNode(k, kinds[k])
                       ELSE Unused]
        /\ nodeMap = 1..(n + 1)
        /\ selection \in NormSelections(n)
    /\ held = nodes
    /\ dirtyNodes = {}
    /\ dirtySubTrees = {}
    /\ readOnly = FALSE
    /\ nextKey = MaxKey + 1
    /\ steps = 0
    /\ last = NoCall

NextNorm == \E rs \in BOOLEAN : last.run < 2 /\ DoNormalizeTextNodes(1, rs)

SpecNorm == InitNorm /\ [][NextNorm]_vars
\* ------------------------------------------------------------------ properties
Now == ViewModel
Pre == last.pre

\* The parent/child invariant of a view model.
WellFormed(vm) ==
    /\ \A k \in vm.nodeMap :
        vm.nodes[k].parent # Null =>
            /\ vm.nodes[k].parent \in Blocks(vm)
            /\ Count(vm.nodes[vm.nodes[k].parent].children, k) = 1
    /\ \A b \in Blocks(vm), k \in Keys : Count(vm.nodes[b].children, k) <= 1
    /\ \A b1 \in Blocks(vm), b2 \in Blocks(vm), k \in Keys :
        (b1 # b2 /\ Count(vm.nodes[b1].children, k) > 0)
            => Count(vm.nodes[b2].children, k) = 0

Appended == last.op = "append" /\ last.err = "none"

\* C1: after B.append(C) from a state that satisfies the parent/child invariant,
\* C.parent is B.key, C.key is in B.children exactly once and last, and C.key is
\* in the children of no other block.
C1_AppendLinksChild ==
    (Appended /\ WellFormed(Pre)) =>
        LET B == last.self
            C == last.arg
            children == nodes[B].children
        IN  /\ nodes[C].parent = B
            /\ Count(children, C) = 1
            /\ children[Len(children)] = C
            /\ \A b \in Blocks(Now) \ {B} : Count(nodes[b].children, C) = 0

\* C1 witness: C was a child of another block P, and B had children already.
C1_Witness_Reparented ==
    /\ Appended /\ WellFormed(Pre)
    /\ Pre.nodes[last.arg].parent \in Blocks(Pre) \ {last.self}
    /\ Len(Pre.nodes[last.self].children) > 0

\* C2: the parent/child invariant holds in every state reachable by append,
\* clear and normalizeTextNodes calls.
C2_TreeInvariant == WellFormed(Now)

Cleared == last.op = "clear" /\ last.err = "none"

\* C3: after B.clear() the children of B are exactly one node: the text node
\* the call created, with empty content and parent B.
C3_ClearLeavesOneEmptyText ==
    Cleared =>
        LET B == last.self
            children == nodes[B].children
        IN  /\ Len(children) = 1
            /\ children[1] = last.arg
            /\ last.arg \notin Pre.nodeMap
            /\ nodes[children[1]].type = "text"
            /\ nodes[children[1]].text = <<>>
            /\ nodes[children[1]].parent = B
Normalized == last.op = "normalize" /\ last.err = "none"

PreChildren == getChildren(Pre, last.self)

RECURSIVE ConcatText(_, _)
ConcatText(ns, ks) ==
    IF ks = <<>> THEN <<>> ELSE ns[Head(ks)].text \o ConcatText(ns, Tail(ks))

\* The reference merge: the children split left to right into maximal runs of
\* adjacent text nodes that are neither immutable nor segmented and have the
\* flags and the url of the first node of their run; every other child is a run
\* of its own.
RefQualifies(n) == n.type = "text" /\ "immutable" \notin n.flags /\ "segmented" \notin n.flags

RECURSIVE RefRuns(_, _, _)
RefRuns(ns, ks, runs) ==
    IF ks = <<>> THEN runs
    ELSE LET k == Head(ks)
             open == runs[Len(runs)]
             joins == /\ runs # <<>>
                      /\ RefQualifies(ns[k])
                      /\ RefQualifies(ns[open[1]])
                      /\ ns[k].flags = ns[open[1]].flags
                      /\ ns[k].url = ns[open[1]].url
         IN  IF joins
             THEN RefRuns(ns, Tail(ks), [runs EXCEPT ![Len(runs)] = Append(@, k)])
             ELSE RefRuns(ns, Tail(ks), Append(runs, <<k>>))

\* C4: normalizeTextNodes leaves the first node of every run, carrying the
\* concatenation of the run's texts, and nothing else; in particular nodes whose
\* urls differ are never merged.
C4_NormalizeEqualsReference ==
    Normalized =>
        LET runs == RefRuns(Pre.nodes, PreChildren, <<>>)
        IN  /\ nodes[last.self].children = [i \in 1..Len(runs) |-> runs[i][1]]
            /\ \A i \in 1..Len(runs) :
                LET k == runs[i][1]
                IN  /\ nodes[k].text = ConcatText(Pre.nodes, runs[i])
                    /\ nodes[k].flags = Pre.nodes[k].flags
                    /\ nodes[k].url = Pre.nodes[k].url
                    /\ nodes[k].type = Pre.nodes[k].type

\* C5: a second normalizeTextNodes run right after a first one on the same block
\* changes neither the children list nor any text.
C5_NormalizeIdempotent ==
    (Normalized /\ last.run = 2) =>
        /\ nodes[last.self].children = Pre.nodes[last.self].children
        /\ \A k \in Keys : nodes[k].text = Pre.nodes[k].text

\* Index in pc of the nearest element up to position j that is in `now`.
Survivor(pc, now, j) ==
    CHOOSE i \in 1..j : /\ Count(now, pc[i]) > 0
                        /\ \A m \in (i + 1)..j : Count(now, pc[m]) = 0

Excluded(n) == n.type = "text" /\ ("immutable" \in n.flags \/ "segmented" \in n.flags)

\* C6: an immutable or segmented text node is never part of a merge: it stays a
\* child with its text, nothing is merged into it, and no node on its right is
\* merged into a node on its left.
C6_ExcludedNeverMerged ==
    last.op = "normalize" =>
        LET pc == PreChildren
            now == nodes[last.self].children
        IN  \A i \in 1..Len(pc) :
                Excluded(Pre.nodes[pc[i]]) =>
                    LET k == pc[i]
                    IN  /\ Count(now, k) = 1
                        /\ k \in nodeMap
                        /\ nodes[k].text = Pre.nodes[k].text
                        /\ nodes[k].parent = last.self
                        /\ \A j \in (i + 1)..Len(pc) :
                            Count(now, pc[j]) = 0 => Survivor(pc, now, j) > i
                        /\ ConcatText(nodes, SelectSeq(SubSeq(pc, 1, i - 1),
                                                       LAMBDA x : Count(now, x) > 0))
                           = ConcatText(Pre.nodes, SubSeq(pc, 1, i - 1))

\* C6 witness: an excluded node stands between two mergeable text nodes of equal
\* flags and url, and the right one is still a child after the call.
C6_Witness_NeighboursKeptApart ==
    /\ Normalized
    /\ LET pc == PreChildren
       IN  \E i \in 2..(Len(pc) - 1) :
            /\ Excluded(Pre.nodes[pc[i]])
            /\ RefQualifies(Pre.nodes[pc[i - 1]])
            /\ RefQualifies(Pre.nodes[pc[i + 1]])
            /\ Pre.nodes[pc[i - 1]].flags = Pre.nodes[pc[i + 1]].flags
            /\ Pre.nodes[pc[i - 1]].url = Pre.nodes[pc[i + 1]].url
            /\ Count(nodes[last.self].children, pc[i + 1]) = 1

\* An endpoint (key0, offset0) of the selection before the call is (key1, offset1)
\* after it, when its node was among the children pc and is not in `now`.
Rebased(pc, now, key0, offset0, key1, offset1) ==
    \A j \in 1..Len(pc) :
        (pc[j] = key0 /\ Count(now, key0) = 0) =>
            LET s == Survivor(pc, now, j)
            IN  /\ key1 = pc[s]
                /\ offset1 = SumLen(Pre.nodes, SubSeq(pc, s, j - 1)) + offset0

\* C7: with restoreSelection, an endpoint whose node was merged away moves to
\* the surviving node, at the summed length of the batch nodes before its node
\* plus its old offset, anchor and focus each on its own; the selection is dirty.
C7_SelectionRebased ==
    (Normalized /\ last.restore /\ Pre.selection # NoSelection) =>
        LET pc == PreChildren
            now == nodes[last.self].children
            sel0 == Pre.selection
        IN  /\ Rebased(pc, now, sel0.anchorKey, sel0.anchorOffset,
                       selection.anchorKey, selection.anchorOffset)
            /\ Rebased(pc, now, sel0.focusKey, sel0.focusOffset,
                       selection.focusKey, selection.focusOffset)
            /\ (\E j \in 1..Len(pc) :
                   /\ pc[j] \in {sel0.anchorKey, sel0.focusKey}
                   /\ Count(now, pc[j]) = 0)
               => selection.isDirty

\* C7 witness: anchor and focus lay in two different nodes merged away in one
\* batch, the focus behind a node of non-empty text.
C7_Witness_BothEndpointsMoved ==
    /\ Normalized /\ last.restore /\ Pre.selection # NoSelection
    /\ Pre.selection.anchorKey # Pre.selection.focusKey
    /\ Count(nodes[last.self].children, Pre.selection.anchorKey) = 0
    /\ Count(nodes[last.self].children, Pre.selection.focusKey) = 0
    /\ selection.anchorKey = selection.focusKey
    /\ Pre.selection.anchorOffset > 0
    /\ selection.anchorOffset > Pre.selection.anchorOffset

\* B's last child when the call was made: the node its last child key resolved
\* to, or Null.
PreLastChild ==
    LET children == Pre.nodes[last.self].children
    IN  IF Len(children) = 0 THEN Null
        ELSE getNodeByKey(Pre, children[Len(children)])

PreLastIsEmptyText ==
    /\ PreLastChild # Null
    /\ Pre.nodes[PreLastChild].type = "text"
    /\ Pre.nodes[PreLastChild].text = <<>>

\* C8 as stated: for every X, B's last child at the call is marked dirty when it
\* is an empty text node, and is not added to dirtySubTrees otherwise.
C8_Original_DirtyForEveryX ==
    Appended =>
        /\ PreLastIsEmptyText => PreLastChild \in dirtySubTrees
        /\ (PreLastChild # Null /\ ~PreLastIsEmptyText) =>
               (PreLastChild \in dirtySubTrees => PreLastChild \in Pre.dirtySubTrees)

\* C8 amended: the same, for every X other than B's last child itself.
C8_DirtyUnlessXIsLast ==
    Appended =>
        /\ (PreLastIsEmptyText /\ last.arg # PreLastChild) =>
               PreLastChild \in dirtySubTrees
        /\ (PreLastChild # Null /\ ~PreLastIsEmptyText) =>
               (PreLastChild \in dirtySubTrees => PreLastChild \in Pre.dirtySubTrees)

\* C8 witness: an empty trailing text node, not dirty before, is dirty after a
\* sibling was appended behind it.
C8_Witness_TrailingEmptyMarked ==
    /\ Appended /\ PreLastIsEmptyText
    /\ last.arg # PreLastChild
    /\ PreLastChild \notin Pre.dirtySubTrees
    /\ PreLastChild \in dirtySubTrees

Mutators == {"append", "clear", "normalize"}

\* C9: a mutator called while the read-only gate is active fails with the
\* read-only error and leaves the whole state as it was.
C9_ReadOnlyGate ==
    (last.op \in Mutators /\ Pre.readOnly) =>
        /\ last.err = "ReadOnly"
        /\ Now = Pre

\* C9 witness: append has failed at the gate, on a node not yet cloned.
C9_Witness_AppendRefused ==
    /\ last.op = "append" /\ last.err = "ReadOnly"
    /\ last.arg \notin Pre.dirtyNodes

\* The text nodes of the subtree of k in document order.
RECURSIVE TextsOf(_, _)
RECURSIVE TextsOfEach(_, _)
TextsOf(vm, k) ==
    IF vm.nodes[k].type = "text" THEN <<k>>
    ELSE TextsOfEach(vm, getChildren(vm, k))

TextsOfEach(vm, ks) ==
    IF ks = <<>> THEN <<>> ELSE TextsOf(vm, Head(ks)) \o TextsOfEach(vm, Tail(ks))

\* C10: getFirstTextNode (getLastTextNode) returns the first (last) text node of
\* the block's subtree in document order, and null only if there is none.
C10_FirstAndLastTextNode ==
    LET texts == TextsOf(Now, last.self)
    IN  /\ last.op = "getFirstTextNode" =>
            last.result = (IF texts = <<>> THEN Null ELSE texts[1])
        /\ last.op = "getLastTextNode" =>
            last.result = (IF texts = <<>> THEN Null ELSE texts[Len(texts)])

\* ------------------------------------------------------------------ C11
Resolved(vm, ks) == SelectSeq(ks, LAMBDA k : k \in vm.nodeMap)

\* C11: getChildren on a reference to a block, stale or not, inside or outside
\* a write transaction, returns the resolvable child keys of the block's latest
\* version in stored order, and changes no state.
C11_GetChildrenReadsLatest ==
    last.op = "getChildren" =>
        /\ last.err = "none"
        /\ last.result = Resolved(Now, nodes[last.self].children)
        /\ Now = Pre

\* getChildren through a reference whose held version has other children than
\* the latest one, with a child key that does not resolve.
C11_Witness_StaleReference ==
    /\ last.op = "getChildren"
    /\ held[last.self].children # nodes[last.self].children
    /\ Len(last.result) < Len(nodes[last.self].children)

\* ------------------------------------------------------------------ C13
\* C13: getFirstChild and getLastChild return the first and the last element of
\* getChildren(), and none exactly when getChildren() is empty.
C13_FirstAndLastChildAgree ==
    LET cs == Resolved(Now, nodes[last.self].children)
    IN  /\ last.op = "getFirstChild" =>
               last.result = IF cs = <<>> THEN Null ELSE cs[1]
        /\ last.op = "getLastChild" =>
               last.result = IF cs = <<>> THEN Null ELSE cs[Len(cs)]

\* ------------------------------------------------------------------ C12
\* Children i and i + 1 of pc end up in one batch: both are mergeable text
\* nodes, their flags are equal and the url of the second passes the url test
\* against the first.
InOneBatch(ns, pc, i) ==
    /\ RefQualifies(ns[pc[i]]) /\ RefQualifies(ns[pc[i + 1]])
    /\ ns[pc[i]].flags = ns[pc[i + 1]].flags
    /\ (ns[pc[i]].url = NullURL \/ ns[pc[i]].url = ns[pc[i + 1]].url)

HasBatch(ns, pc) == \E i \in 1..(Len(pc) - 1) : InOneBatch(ns, pc, i)

\* C12: normalizeTextNodes(restoreSelection = true) that reaches a batch of more
\* than one node while there is no selection fails with an invariant violation
\* and leaves every node, the registry and the clone set as they were.
C12_NoSelectionFailsBeforeMutation ==
    (/\ last.op = "normalize" /\ last.restore
     /\ Pre.selection = NoSelection
     /\ HasBatch(Pre.nodes, PreChildren)) =>
        /\ last.err = "Invariant"
        /\ Now = Pre

\* C12 witness: the failing batch is the second and third child, behind a child
\* that is not mergeable.
C12_Witness_FailedBehindFirstChild ==
    /\ last.op = "normalize" /\ last.restore /\ last.err = "Invariant"
    /\ Len(PreChildren) = 3
    /\ ~RefQualifies(Pre.nodes[PreChildren[1]])
    /\ InOneBatch(Pre.nodes, PreChildren, 2)

\* ------------------------------------------------------------------ C14
\* C14: normalizeTextNodes keeps the concatenated text of the block's children,
\* leaves a subsequence of the old children list, merges every removed node
\* into the first node of its batch, and leaves every child that is a batch of
\* its own with its key, text, flags and url.
C14_NormalizePreservesContentAndOrder ==
    last.op = "normalize" =>
        LET pc == PreChildren
            now == nodes[last.self].children
            runs == RefRuns(Pre.nodes, pc, <<>>)
        IN  /\ ConcatText(nodes, now) = ConcatText(Pre.nodes, pc)
            /\ now = SelectSeq(pc, LAMBDA k : Count(now, k) > 0)
            /\ \A r \in 1..Len(runs) :
                /\ Count(now, runs[r][1]) = 1
                /\ Len(runs[r]) = 1 =>
                       LET k == runs[r][1]
                       IN  /\ k \in nodeMap
                           /\ nodes[k].text = Pre.nodes[k].text
                           /\ nodes[k].flags = Pre.nodes[k].flags
                           /\ nodes[k].url = Pre.nodes[k].url
                           /\ nodes[k].type = Pre.nodes[k].type

\* ------------------------------------------------------------------ C15
\* The node n parent links above k, or Null when the chain ends before.
RECURSIVE Up(_, _, _)
Up(vm, k, n) ==
    IF k = Null \/ n = 0 THEN k ELSE Up(vm, vm.nodes[k].parent, n - 1)

\* C15: after any sequence of append calls no node is its own ancestor or its
\* own child; every chain of parent links ends at a node with no parent.
C15_AppendKeepsTreeAcyclic ==
    \A k \in nodeMap :
        /\ \A n \in 1..MaxKey : Up(Now, k, n) # k
        /\ Count(nodes[k].children, k) = 0

\* ------------------------------------------------------------------ C16
\* C16: without restoreSelection, normalizeTextNodes completes without error
\* whether or not a selection exists, merges away every node that follows a
\* mergeable node of its flags and url, and leaves a present selection as it is.
C16_NoRestoreIgnoresSelection ==
    (last.op = "normalize" /\ ~last.restore) =>
        LET pc == PreChildren
            now == nodes[last.self].children
        IN  /\ last.err = "none"
            /\ \A i \in 1..(Len(pc) - 1) :
                (/\ InOneBatch(Pre.nodes, pc, i)
                 /\ Pre.nodes[pc[i]].url = Pre.nodes[pc[i + 1]].url)
                    => Count(now, pc[i + 1]) = 0
            /\ selection = Pre.selection

\* ------------------------------------------------------------------ C17
\* A successful normalizeTextNodes(restoreSelection = true) call with a
\* selection neither of whose endpoints lay in a node that was merged away.
EndpointsSurvive ==
    /\ Normalized /\ last.restore /\ Pre.selection # NoSelection
    /\ LET pc == PreChildren
           now == nodes[last.self].children
       IN  \A j \in 1..Len(pc) :
               pc[j] \in {Pre.selection.anchorKey, Pre.selection.focusKey}
                   => Count(now, pc[j]) > 0

Merged == Len(nodes[last.self].children) < Len(PreChildren)

\* C17 as stated: when no endpoint lay in a node merged away, the call leaves
\* isDirty, both keys and both offsets as they were.
C17_Original_DirtyOnlyWhenRebased ==
    EndpointsSurvive => selection = Pre.selection

\* C17: when no endpoint lay in a node merged away, the call leaves both keys
\* and both offsets as they were; it sets isDirty when it merged a batch and
\* leaves isDirty as it was when it merged none.
C17_EndpointsKeptDirtyOnMerge ==
    EndpointsSurvive =>
        /\ selection.anchorKey = Pre.selection.anchorKey
        /\ selection.anchorOffset = Pre.selection.anchorOffset
        /\ selection.focusKey = Pre.selection.focusKey
        /\ selection.focusOffset = Pre.selection.focusOffset
        /\ selection.isDirty = (Pre.selection.isDirty \/ Merged)

\* C17 witness: both endpoints lie behind the first character of the node that
\* survives a merge, and the selection was clean before the call.
C17_Witness_EndpointsInSurvivor ==
    /\ EndpointsSurvive /\ Merged
    /\ Pre.selection.anchorKey = PreChildren[1]
    /\ Pre.selection.focusKey = PreChildren[1]
    /\ Pre.selection.anchorOffset > 0
    /\ ~Pre.selection.isDirty
    /\ Count(nodes[last.self].children, PreChildren[2]) = 0

\* ------------------------------------------------------------------ C18
\* The block the appended node hung under when the call was made, or Null.
PreParent ==
    LET p == Pre.nodes[last.arg].parent
    IN  IF p # Null /\ p \in Pre.nodeMap THEN p ELSE Null

Without(ks, c) == SelectSeq(ks, LAMBDA x : x # c)

\* C18: B.append(C) changes B's children (C's key goes to the end), C's parent,
\* the children of C's previous parent (C's key goes, the rest keeps its order)
\* and dirtySubTrees (at most one key more, none less); every other parent,
\* children list and text, and the selection, stay as they were.
C18_AppendFrame ==
    Appended =>
        LET B == last.self
            C == last.arg
            P == PreParent
        IN  /\ \A k \in Keys :
                LET old == Pre.nodes[k].children
                    kept == IF k = P THEN Without(old, C) ELSE old
                IN  /\ nodes[k].children = IF k = B THEN Append(kept, C) ELSE kept
                    /\ Len(kept) >= Len(old) - 1
                    /\ nodes[k].parent = IF k = C THEN B ELSE Pre.nodes[k].parent
                    /\ nodes[k].text = Pre.nodes[k].text
                    /\ nodes[k].flags = Pre.nodes[k].flags
                    /\ nodes[k].url = Pre.nodes[k].url
                    /\ nodes[k].type = Pre.nodes[k].type
            /\ selection = Pre.selection
            /\ Pre.dirtySubTrees \subseteq dirtySubTrees
            /\ Cardinality(dirtySubTrees \ Pre.dirtySubTrees) <= 1

\* C18 witness: C leaves a parent other than B that keeps another child, B had
\* a child already, and a key was added to dirtySubTrees.
C18_Witness_MovedBetweenBlocks ==
    /\ Appended
    /\ PreParent \notin {Null, last.self}
    /\ Len(nodes[PreParent].children) >= 1
    /\ Len(nodes[PreParent].children) < Len(Pre.nodes[PreParent].children)
    /\ Len(Pre.nodes[last.self].children) >= 1
    /\ dirtySubTrees # Pre.dirtySubTrees

\* ------------------------------------------------------------------ C19
\* B.append(C) was called inside a write transaction while C's parent P
\* resolved and P's children did not hold C's key.
ParentLacksChild ==
    /\ last.op = "append" /\ ~Pre.readOnly
    /\ PreParent # Null
    /\ Count(Pre.nodes[PreParent].children, last.arg) = 0

\* C19: when C's parent P does not list C, B.append(C) does not fail, leaves
\* P's children as they were (with C's key added at the end when P is B), sets
\* C.parent to B and leaves C's key as the last element of B.children.
C19_TolerantReparenting ==
    ParentLacksChild =>
        LET B == last.self
            C == last.arg
            P == PreParent
            old == Pre.nodes[P].children
        IN  /\ last.err = "none"
            /\ nodes[P].children = IF P = B THEN Append(old, C) ELSE old
            /\ nodes[C].parent = B
            /\ Len(nodes[B].children) > 0
            /\ nodes[B].children[Len(nodes[B].children)] = C

\* C19 witness: the parent that does not list C is another block than B and
\* has a child of its own.
C19_Witness_ParentKeepsItsChild ==
    /\ ParentLacksChild
    /\ PreParent # last.self
    /\ Len(Pre.nodes[PreParent].children) > 0
    /\ nodes[last.arg].parent = last.self
====
